---- MODULE Spec2Model ----
(***************************************************************************)
(* Model of src/app/page.tsx: the chat and update-check handlers of the    *)
(* Page component, the framework tagger detectFrameworks, and the          *)
(* normalization of agent payloads done at the two call sites.             *)
(*                                                                         *)
(* JavaScript strings are sequences of one-character strings, so that      *)
(* regular-expression tests, JSON.stringify and JSON decoding are computed *)
(* character by character.  JavaScript values are tagged records           *)
(* [t |-> tag, v |-> payload].                                             *)
(***************************************************************************)
EXTENDS Integers, Sequences, FiniteSets, TLC

VARIABLES
    messages,            \* useState<ChatMessage[]>          (line 543)
    inputValue,          \* useState('')                     (line 544)
    chatLoading,         \* useState(false)                  (line 545)
    frameworkFilter,     \* useState<FrameworkFilter>('All') (line 546)
    activeAgentId,       \* useState<string | null>(null)    (line 547)
    updates,             \* useState<RegulatoryUpdate[]>([]) (line 549)
    updatesSummary,      \* useState('')                     (line 550)
    updatesLastChecked,  \* useState('')                     (line 551)
    updatesLoading,      \* useState(false)                  (line 552)
    updatesError,        \* useState('')                     (line 553)
    reviewedUpdates,     \* useState<Set<number>>(new Set()) (line 554)
    sampleData,          \* useState(false)                  (line 540)
    inflight,            \* callAIAgent promises not yet settled: arguments
                         \* and the continuation's captured loadingMsgId
    agentCalls,          \* number of callAIAgent invocations, per agent
    settled,             \* the promise settled last, with its result
    idCounter,           \* number of generateId() results handed out
    clock,               \* the value new Date() reads
    dfLog,               \* direct calls of detectFrameworks: arguments, result
    lastCall,            \* the last call of a request handler: which handler,
                         \* whether it passed the guard, what the guard read
    clicked              \* the indices of the update cards clicked since
                         \* the last successful update check

vars ==
    <<messages, inputValue, chatLoading, frameworkFilter, activeAgentId,
      updates, updatesSummary, updatesLastChecked, updatesLoading,
      updatesError, reviewedUpdates, sampleData, inflight, agentCalls,
      settled, idCounter, clock, dfLog, lastCall, clicked>>

pageVars ==
    <<messages, inputValue, chatLoading, frameworkFilter, activeAgentId,
      updates, updatesSummary, updatesLastChecked, updatesLoading,
      updatesError, reviewedUpdates, sampleData>>

\* Everything but the record of the last handler call.
stateVars ==
    <<pageVars, inflight, agentCalls, settled, idCounter, clock, dfLog,
      clicked>>

-----------------------------------------------------------------------------
(* Bounds of the model.                                                    *)

\* Requests (chat sends and update checks) the page issues in a run.
MaxRequests == 2
\* Fragments a text given to detectFrameworks is made of.
MaxFrags == 2
\* Direct calls of detectFrameworks in a run.
MaxCalls == 3

-----------------------------------------------------------------------------
(* JavaScript strings.                                                     *)

Cat3(a, b, c) == a \o b \o c

\* ss[lo] \o ... \o ss[hi]
RECURSIVE ConcatRange(_, _, _)
ConcatRange(ss, lo, hi) ==
    IF lo > hi THEN <<>>
    ELSE IF lo = hi THEN ss[lo]
    ELSE ConcatRange(ss, lo, (lo + hi) \div 2)
            \o ConcatRange(ss, (lo + hi) \div 2 + 1, hi)

Concat(ss) == ConcatRange(ss, 1, Len(ss))

RECURSIVE Join(_, _)
Join(ss, sep) ==
    IF ss = <<>> THEN <<>>
    ELSE IF Len(ss) = 1 THEN ss[1]
    ELSE ss[1] \o sep \o Join(Tail(ss), sep)

LowerMap ==
    [A |-> "a", B |-> "b", C |-> "c", D |-> "d", E |-> "e", F |-> "f",
     G |-> "g", H |-> "h", I |-> "i", J |-> "j", K |-> "k", L |-> "l",
     M |-> "m", N |-> "n", O |-> "o", P |-> "p", Q |-> "q", R |-> "r",
     S |-> "s", T |-> "t", U |-> "u", V |-> "v", W |-> "w", X |-> "x",
     Y |-> "y", Z |-> "z"]

Lower(c) == IF c \in DOMAIN LowerMap THEN LowerMap[c] ELSE c

WhiteSpace == {" ", "\n", "\t"}

RECURSIVE TrimStart(_)
TrimStart(s) ==
    IF s # <<>> /\ Head(s) \in WhiteSpace THEN TrimStart(Tail(s)) ELSE s

RECURSIVE TrimEnd(_)
TrimEnd(s) ==
    IF s # <<>> /\ s[Len(s)] \in WhiteSpace
    THEN TrimEnd(SubSeq(s, 1, Len(s) - 1)) ELSE s

Trim(s) == TrimEnd(TrimStart(s))

StartsAt(s, i, lit) ==
    /\ i + Len(lit) - 1 <= Len(s)
    /\ \A k \in 1..Len(lit) : s[i + k - 1] = lit[k]

Least(S) == CHOOSE i \in S : \A j \in S : i <= j

\* Least index >= i at which lit occurs in s, or 0.
IndexOf(s, lit, i) ==
    LET at == {j \in i..Len(s) : StartsAt(s, j, lit)}
    IN IF at = {} THEN 0 ELSE Least(at)

-----------------------------------------------------------------------------
(* The string literals of the page and of the language, character by       *)
(* character, and the property names the page reads.                       *)

Lit ==
    [true |-> <<"t","r","u","e">>,
     false |-> <<"f","a","l","s","e">>,
     null |-> <<"n","u","l","l">>,
     undefined |-> <<"u","n","d","e","f","i","n","e","d">>,
     objectObject |-> <<"[","o","b","j","e","c","t"," ","O","b","j","e","c",
          "t","]">>,
     DPDPA |-> <<"D","P","D","P","A">>,
     DigitalPersonal |-> <<"D","i","g","i","t","a","l"," ","P","e","r","s",
          "o","n","a","l"," ","D","a","t","a"," ","P","r","o","t","e","c",
          "t","i","o","n">>,
     ITAct2000 |-> <<"I","T"," ","A","c","t"," ","2","0","0","0">>,
     ITAct2008 |-> <<"I","T"," ","A","c","t"," ","2","0","0","8">>,
     InformationTechnologyAct |-> <<"I","n","f","o","r","m","a","t","i","o",
          "n"," ","T","e","c","h","n","o","l","o","g","y"," ","A","c","t">>,
     IT |-> <<"I","T">>,
     Amendment |-> <<"A","m","e","n","d","m","e","n","t">>,
     Act |-> <<"A","c","t">>,
     Y2000 |-> <<"2","0","0","0">>,
     Y2008 |-> <<"2","0","0","8">>,
     UnableToParse |-> <<"U","n","a","b","l","e"," ","t","o"," ","p","a",
          "r","s","e"," ","r","e","s","p","o","n","s","e">>,
     FailedLegal |-> <<"F","a","i","l","e","d"," ","t","o"," ","g","e","t",
          " ","r","e","s","p","o","n","s","e"," ","f","r","o","m"," ","L",
          "e","g","a","l"," ","K","n","o","w","l","e","d","g","e"," ","A",
          "s","s","i","s","t","a","n","t">>,
     NetworkError |-> <<"N","e","t","w","o","r","k"," ","e","r","r","o","r",
          "."," ","P","l","e","a","s","e"," ","t","r","y"," ","a","g","a",
          "i","n",".">>,
     FailedUpdates |-> <<"F","a","i","l","e","d"," ","t","o"," ","c","h",
          "e","c","k"," ","f","o","r"," ","u","p","d","a","t","e","s">>,
     CheckUpdatesPrompt |-> <<"C","h","e","c","k"," ","f","o","r"," ","l",
          "a","t","e","s","t"," ","r","e","g","u","l","a","t","o","r","y",
          " ","u","p","d","a","t","e","s"," ","f","r","o","m"," ","M","e",
          "i","t","Y"," ","p","o","r","t","a","l"," ","r","e","g","a","r",
          "d","i","n","g"," ","D","P","D","P","A",","," ","I","T"," ","A",
          "c","t"," ","2","0","0","0",","," ","a","n","d"," ","I","T"," ",
          "A","c","t"," ","2","0","0","8">>,
     All |-> <<"A","l","l">>,
     SuggestedQuery |-> <<"W","h","a","t"," ","a","r","e"," ","t","h","e",
          " ","c","o","n","s","e","n","t"," ","r","e","q","u","i","r","e",
          "m","e","n","t","s"," ","u","n","d","e","r"," ","D","P","D","P",
          "A","?">>]

Key ==
    [result |-> <<"r","e","s","u","l","t">>,
     message |-> <<"m","e","s","s","a","g","e">>,
     answer |-> <<"a","n","s","w","e","r">>,
     text |-> <<"t","e","x","t">>,
     sources |-> <<"s","o","u","r","c","e","s">>,
     cross_framework_analysis |-> <<"c","r","o","s","s","_","f","r","a","m",
          "e","w","o","r","k","_","a","n","a","l","y","s","i","s">>,
     precedence_notes |-> <<"p","r","e","c","e","d","e","n","c","e","_","n",
          "o","t","e","s">>,
     compliance_steps |-> <<"c","o","m","p","l","i","a","n","c","e","_","s",
          "t","e","p","s">>,
     updates |-> <<"u","p","d","a","t","e","s">>,
     summary |-> <<"s","u","m","m","a","r","y">>,
     last_checked |-> <<"l","a","s","t","_","c","h","e","c","k","e","d">>,
     act |-> <<"a","c","t">>,
     section |-> <<"s","e","c","t","i","o","n">>,
     description |-> <<"d","e","s","c","r","i","p","t","i","o","n">>,
     title |-> <<"t","i","t","l","e">>]

-----------------------------------------------------------------------------
(* JavaScript values: [t |-> typeof-like tag, v |-> payload].  A string's  *)
(* payload is its characters, a number's <<n>> (naturals only), a          *)
(* boolean's <<b>>, an array's its elements, an object's its ordered       *)
(* <<key, value>> pairs.                                                   *)

Undefined == [t |-> "undefined", v |-> <<>>]
Null == [t |-> "null", v |-> <<>>]
Str(s) == [t |-> "string", v |-> s]
Num(n) == [t |-> "number", v |-> <<n>>]
Bool(b) == [t |-> "boolean", v |-> <<b>>]
Arr(xs) == [t |-> "array", v |-> xs]
Obj(pairs) == [t |-> "object", v |-> pairs]

EmptyStr == Str(<<>>)

IsString(x) == x.t = "string"
IsArray(x) == x.t = "array"

\* typeof x === 'object'
TypeofObject(x) == x.t \in {"object", "array", "null"}

\* ToBoolean
Truthy(x) ==
    CASE x.t = "undefined" -> FALSE
      [] x.t = "null" -> FALSE
      [] x.t = "string" -> x.v # <<>>
      [] x.t = "number" -> x.v[1] # 0
      [] x.t = "boolean" -> x.v[1]
      [] OTHER -> TRUE

\* a || b
OrElse(a, b) == IF Truthy(a) THEN a ELSE b

HasKey(x, key) == x.t = "object" /\ \E i \in 1..Len(x.v) : x.v[i][1] = key

\* x?.key for the keys read by the page (none of them is a property of a
\* string, number, boolean or array); the last pair with the key wins.
Get(x, key) ==
    IF HasKey(x, key)
    THEN LET i == CHOOSE i \in 1..Len(x.v) :
                    /\ x.v[i][1] = key
                    /\ \A j \in (i + 1)..Len(x.v) : x.v[j][1] # key
         IN x.v[i][2]
    ELSE Undefined

DigitChar == <<"0", "1", "2", "3", "4", "5", "6", "7", "8", "9">>

RECURSIVE NumToString(_)
NumToString(n) ==
    IF n < 10 THEN <<DigitChar[n + 1]>>
    ELSE NumToString(n \div 10) \o <<DigitChar[(n % 10) + 1]>>

\* ToString, as applied by the + operator.
RECURSIVE JSToString(_)
JSToString(x) ==
    CASE x.t = "string" -> x.v
      [] x.t = "number" -> NumToString(x.v[1])
      [] x.t = "boolean" -> IF x.v[1] THEN Lit.true ELSE Lit.false
      [] x.t = "null" -> Lit.null
      [] x.t = "undefined" -> Lit.undefined
      [] x.t = "array" ->
            Join([i \in 1..Len(x.v) |->
                    IF x.v[i].t \in {"null", "undefined"} THEN <<>>
                    ELSE JSToString(x.v[i])], <<",">>)
      [] OTHER -> Lit.objectObject

\* The characters JSON.stringify writes for one character of a string.
EscapeChar(c) ==
    CASE c = "\"" -> <<"\\", "\"">>
      [] c = "\\" -> <<"\\", "\\">>
      [] c = "\n" -> <<"\\", "n">>
      [] c = "\t" -> <<"\\", "t">>
      [] OTHER -> <<c>>

Quote(s) ==
    <<"\"">> \o Concat([i \in 1..Len(s) |-> EscapeChar(s[i])]) \o <<"\"">>

RECURSIVE SelectPairs(_)
SelectPairs(pairs) ==
    IF pairs = <<>> THEN <<>>
    ELSE IF Head(pairs)[2].t = "undefined" THEN SelectPairs(Tail(pairs))
    ELSE <<Head(pairs)>> \o SelectPairs(Tail(pairs))

\* JSON.stringify(x)
RECURSIVE JSONstringify(_)
JSONstringify(x) ==
    CASE x.t = "string" -> Quote(x.v)
      [] x.t = "number" -> NumToString(x.v[1])
      [] x.t = "boolean" -> IF x.v[1] THEN Lit.true ELSE Lit.false
      [] x.t = "null" -> Lit.null
      [] x.t = "array" ->
            Cat3(<<"[">>,
                 Join([i \in 1..Len(x.v) |->
                         IF x.v[i].t = "undefined" THEN Lit.null
                         ELSE JSONstringify(x.v[i])], <<",">>),
                 <<"]">>)
      [] x.t = "object" ->
            LET ps == SelectPairs(x.v)
            IN Cat3(<<"{">>,
                    Join([i \in 1..Len(ps) |->
                            Cat3(Quote(ps[i][1]), <<":">>,
                                 JSONstringify(ps[i][2]))], <<",">>),
                    <<"}">>)
      [] OTHER -> Lit.undefined

-----------------------------------------------------------------------------
(* Regular expressions of detectFrameworks.  A pattern is a set of         *)
(* alternatives; an alternative is a sequence of literal characters and    *)
(* OptAny elements (".?": at most one character other than a line break).  *)
(* All three expressions carry the flag i and no flag g, so test() starts  *)
(* at index 0 and keeps no lastIndex.                                      *)

OptAny == ".?"

RECURSIVE MatchHere(_, _, _, _)
MatchHere(pat, i, s, j) ==
    IF i > Len(pat) THEN TRUE
    ELSE IF pat[i] = OptAny
    THEN \/ MatchHere(pat, i + 1, s, j)
         \/ /\ j <= Len(s)
            /\ s[j] # "\n"
            /\ MatchHere(pat, i + 1, s, j + 1)
    ELSE /\ j <= Len(s)
         /\ Lower(s[j]) = Lower(pat[i])
         /\ MatchHere(pat, i + 1, s, j + 1)

\* /alt1|alt2|.../i.test(s)
RegExpTest(alts, s) ==
    \E a \in alts : \E j \in 1..(Len(s) + 1) : MatchHere(a, 1, s, j)

\* /DPDPA|Digital Personal Data Protection/i
RE_DPDPA == {Lit.DPDPA, Lit.DigitalPersonal}

\* /IT Act 2000|Information Technology Act.?2000/i
RE_ITAct2000 ==
    {Lit.ITAct2000, Lit.InformationTechnologyAct \o <<OptAny>> \o Lit.Y2000}

\* /IT Act 2008|IT.?Amendment.?Act.?2008/i
RE_ITAct2008 ==
    {Lit.ITAct2008,
     Lit.IT \o <<OptAny>> \o Lit.Amendment \o <<OptAny>> \o Lit.Act \o <<OptAny>>
        \o Lit.Y2008}

-----------------------------------------------------------------------------
(* detectFrameworks (lines 63-70).                                         *)

\* A variant of NewFrameworks: one array shared by all calls, holding what
\* the call before pushed.
SharedFrameworks ==
    IF dfLog = <<>> THEN <<>>
    ELSE SelectSeq(dfLog[Len(dfLog)].result, LAMBDA l : l # "General")

\* const frameworks: string[] = []   -- a fresh array in every call
NewFrameworks == <<>>

\* A variant of Combined that leaves the sources out.
CombinedTextOnly(text, sources) == JSToString(OrElse(text, EmptyStr))

\* (text || '') + ' ' + JSON.stringify(sources || [])
Combined(text, sources) ==
    Cat3(JSToString(OrElse(text, EmptyStr)), <<" ">>,
         JSONstringify(OrElse(sources, Arr(<<>>))))

\* A variant of PushIf that puts the label in front.
UnshiftIf(frameworks, re, combined, label) ==
    IF RegExpTest(re, combined) THEN <<label>> \o frameworks ELSE frameworks

\* if (re.test(combined)) frameworks.push(label)
PushIf(frameworks, re, combined, label) ==
    IF RegExpTest(re, combined) THEN Append(frameworks, label) ELSE frameworks

detectFrameworks(text, sources) ==
    LET combined == Combined(text, sources)
        f1 == PushIf(NewFrameworks, RE_DPDPA, combined, "DPDPA")
        f2 == PushIf(f1, RE_ITAct2000, combined, "IT Act 2000")
        f3 == PushIf(f2, RE_ITAct2008, combined, "IT Act 2008")
    IN IF Len(f3) # 0 THEN f3 ELSE <<"General">>

-----------------------------------------------------------------------------
(* parseLLMJson (imported from '@/lib/jsonParser', line 5): the pipeline   *)
(* Fence Stripper -> Candidate Locator -> Tolerant Decoder.  Numbers are   *)
(* naturals; the string escapes decoded are \" \\ \/ \n \t.                *)

\* Three characters U+0060, each written by name.
Fence == <<"grave", "grave", "grave">>

Letters ==
    {"a", "b", "c", "d", "e", "f", "g", "h", "i", "j", "k", "l", "m", "n",
     "o", "p", "q", "r", "s", "t", "u", "v", "w", "x", "y", "z"}

RECURSIVE SkipLetters(_, _)
SkipLetters(s, i) ==
    IF i <= Len(s) /\ s[i] \in Letters THEN SkipLetters(s, i + 1) ELSE i

\* Index of the first character of the interior of a fence opened at open:
\* a language hint is a run of letters ended by a line break.
InteriorStart(s, open) ==
    LET b == open + Len(Fence)
        h == SkipLetters(s, b)
    IN IF h <= Len(s) /\ s[h] = "\n" THEN h + 1 ELSE b

\* The interior of the first fenced block, or the text itself.
FenceStrip(s) ==
    LET open == IndexOf(s, Fence, 1)
    IN IF open = 0 THEN s
       ELSE LET b == InteriorStart(s, open)
                close == IndexOf(s, Fence, b)
            IN IF close = 0 THEN s ELSE SubSeq(s, b, close - 1)

Openers == {"{", "["}
Closers == {"}", "]"}
QuoteChars == {"\"", "'"}

\* Index of the first opening bracket of s, or 0.
FirstOpener(s) ==
    LET at == {j \in 1..Len(s) : s[j] \in Openers}
    IN IF at = {} THEN 0 ELSE Least(at)

\* The state of the bracket-depth walk: the depth, the quote character of
\* the string literal the walk is in (or ""), whether the last character was
\* an escaping backslash, and the index of the closing bracket that brought
\* the depth to zero (or 0).
WalkStart == [depth |-> 1, quote |-> "", escaped |-> FALSE, close |-> 0]

\* One character of the walk.
WalkStep(s, i, w) ==
    IF w.close # 0 THEN w
    ELSE IF w.escaped THEN [w EXCEPT !.escaped = FALSE]
    ELSE IF w.quote # ""
    THEN IF s[i] = "\\" THEN [w EXCEPT !.escaped = TRUE]
         ELSE IF s[i] = w.quote THEN [w EXCEPT !.quote = ""]
         ELSE w
    ELSE IF s[i] \in QuoteChars THEN [w EXCEPT !.quote = s[i]]
    ELSE IF s[i] \in Openers THEN [w EXCEPT !.depth = @ + 1]
    ELSE IF s[i] \in Closers
    THEN IF w.depth = 1 THEN [w EXCEPT !.close = i]
         ELSE [w EXCEPT !.depth = @ - 1]
    ELSE w

\* The walk over s[lo..hi], left to right, from state w; it stops at the
\* closing bracket.
RECURSIVE Walk(_, _, _, _)
Walk(s, lo, hi, w) ==
    IF lo > hi THEN w
    ELSE IF lo = hi THEN WalkStep(s, lo, w)
    ELSE LET mid == (lo + hi) \div 2
             left == Walk(s, lo, mid, w)
         IN IF left.close # 0 THEN left ELSE Walk(s, mid + 1, hi, left)

\* Index of the bracket closing the one opened at open, or 0.
MatchClose(s, open) == Walk(s, open + 1, Len(s), WalkStart).close

NoCandidate == [found |-> FALSE, text |-> <<>>]

\* The first balanced region of s, from the first opening bracket.
Locate(s) ==
    LET open == FirstOpener(s)
    IN IF open = 0 THEN NoCandidate
       ELSE LET close == MatchClose(s, open)
            IN IF close = 0 THEN NoCandidate
               ELSE [found |-> TRUE, text |-> SubSeq(s, open, close)]

Digits == {"0", "1", "2", "3", "4", "5", "6", "7", "8", "9"}

DigitValue(c) == CHOOSE n \in 0..9 : DigitChar[n + 1] = c

RECURSIVE SkipWs(_, _)
SkipWs(s, i) ==
    IF i <= Len(s) /\ s[i] \in WhiteSpace THEN SkipWs(s, i + 1) ELSE i

ParseFail == [ok |-> FALSE, val |-> Undefined, next |-> 0]
Parsed(val, next) == [ok |-> TRUE, val |-> val, next |-> next]

\* The characters of a string literal, from the character after its opening
\* quote.
RECURSIVE ParseString(_, _, _)
ParseString(s, i, acc) ==
    IF i > Len(s) THEN ParseFail
    ELSE IF s[i] = "\"" THEN Parsed(Str(acc), i + 1)
    ELSE IF s[i] \in {"\n", "\t"} THEN ParseFail
    ELSE IF s[i] = "\\"
    THEN IF i + 1 > Len(s) THEN ParseFail
         ELSE IF s[i + 1] \in {"\"", "\\", "/"}
         THEN ParseString(s, i + 2, Append(acc, s[i + 1]))
         ELSE IF s[i + 1] = "n" THEN ParseString(s, i + 2, Append(acc, "\n"))
         ELSE IF s[i + 1] = "t" THEN ParseString(s, i + 2, Append(acc, "\t"))
         ELSE ParseFail
    ELSE ParseString(s, i + 1, Append(acc, s[i]))

RECURSIVE ParseDigits(_, _, _)
ParseDigits(s, i, n) ==
    IF i <= Len(s) /\ s[i] \in Digits
    THEN ParseDigits(s, i + 1, 10 * n + DigitValue(s[i]))
    ELSE Parsed(Num(n), i)

ParseNumber(s, i) ==
    IF s[i] = "0" /\ i + 1 <= Len(s) /\ s[i + 1] \in Digits THEN ParseFail
    ELSE ParseDigits(s, i, 0)

ParseLiteral(s, i, lit, val) ==
    IF StartsAt(s, i, lit) THEN Parsed(val, i + Len(lit)) ELSE ParseFail

RECURSIVE ParseValue(_, _)
RECURSIVE ParseElements(_, _, _, _)
RECURSIVE ParseMembers(_, _, _, _)

\* One JSON value, from index i (leading white space allowed).
ParseValue(s, i) ==
    LET j == SkipWs(s, i)
    IN IF j > Len(s) THEN ParseFail
       ELSE CASE s[j] = "\"" -> ParseString(s, j + 1, <<>>)
              [] s[j] = "{" -> ParseMembers(s, j + 1, <<>>, TRUE)
              [] s[j] = "[" -> ParseElements(s, j + 1, <<>>, TRUE)
              [] s[j] = "t" -> ParseLiteral(s, j, Lit.true, Bool(TRUE))
              [] s[j] = "f" -> ParseLiteral(s, j, Lit.false, Bool(FALSE))
              [] s[j] = "n" -> ParseLiteral(s, j, Lit.null, Null)
              [] s[j] \in Digits -> ParseNumber(s, j)
              [] OTHER -> ParseFail

\* The elements of an array, from the character after "[" (first) or after
\* a comma.
ParseElements(s, i, acc, first) ==
    LET j == SkipWs(s, i)
    IN IF j > Len(s) THEN ParseFail
       ELSE IF first /\ s[j] = "]" THEN Parsed(Arr(acc), j + 1)
       ELSE LET e == ParseValue(s, j)
                k == SkipWs(s, e.next)
            IN IF ~e.ok \/ k > Len(s) THEN ParseFail
               ELSE IF s[k] = "," THEN
                        ParseElements(s, k + 1, Append(acc, e.val), FALSE)
               ELSE IF s[k] = "]" THEN Parsed(Arr(Append(acc, e.val)), k + 1)
               ELSE ParseFail

\* The members of an object, from the character after "{" (first) or after
\* a comma.
ParseMembers(s, i, acc, first) ==
    LET j == SkipWs(s, i)
    IN IF j > Len(s) THEN ParseFail
       ELSE IF first /\ s[j] = "}" THEN Parsed(Obj(acc), j + 1)
       ELSE IF s[j] # "\"" THEN ParseFail
       ELSE LET key == ParseString(s, j + 1, <<>>)
                c == SkipWs(s, key.next)
            IN IF ~key.ok \/ c > Len(s) THEN ParseFail
               ELSE IF s[c] # ":" THEN ParseFail
               ELSE LET e == ParseValue(s, c + 1)
                        k == SkipWs(s, e.next)
                        m == Append(acc, <<key.val.v, e.val>>)
                    IN IF ~e.ok \/ k > Len(s) THEN ParseFail
                       ELSE IF s[k] = "," THEN ParseMembers(s, k + 1, m, FALSE)
                       ELSE IF s[k] = "}" THEN Parsed(Obj(m), k + 1)
                       ELSE ParseFail

\* Strict decoding of a whole text.
WholeText(s, r) ==
    IF r.ok /\ SkipWs(s, r.next) > Len(s) THEN r ELSE ParseFail

StrictDecode(s) == WholeText(s, ParseValue(s, 1))

\* The characters U+201C, U+201D, U+2018, U+2019, written by name.

\* Smart quotes to straight quotes.
StraightenQuotes(s) ==
    [i \in 1..Len(s) |->
        IF s[i] \in {"ldquo", "rdquo"} THEN "\""
        ELSE IF s[i] \in {"lsquo", "rsquo"} THEN "'"
        ELSE s[i]]

\* The state of the repair pass: the text written so far, whether the pass
\* is inside a string literal, whether the last character was an escaping
\* backslash.
RepairStart == [out |-> <<>>, inString |-> FALSE, escaped |-> FALSE]

\* One character of the repair pass: a comma that only white space
\* separates from a closing bracket is dropped, a bare control character
\* inside a string literal is escaped.
RepairStep(s, i, w) ==
    IF w.escaped
    THEN [w EXCEPT !.out = Append(@, s[i]), !.escaped = FALSE]
    ELSE IF w.inString
    THEN IF s[i] = "\\"
         THEN [w EXCEPT !.out = Append(@, s[i]), !.escaped = TRUE]
         ELSE IF s[i] = "\""
         THEN [w EXCEPT !.out = Append(@, s[i]), !.inString = FALSE]
         ELSE IF s[i] \in {"\n", "\t"}
         THEN [w EXCEPT !.out = @ \o EscapeChar(s[i])]
         ELSE [w EXCEPT !.out = Append(@, s[i])]
    ELSE IF s[i] = "\""
    THEN [w EXCEPT !.out = Append(@, s[i]), !.inString = TRUE]
    ELSE IF /\ s[i] = ","
            /\ SkipWs(s, i + 1) <= Len(s)
            /\ s[SkipWs(s, i + 1)] \in Closers
    THEN w
    ELSE [w EXCEPT !.out = Append(@, s[i])]

\* The repair pass over s[lo..hi], left to right, from state w (the test
\* on the left half has it computed before the right half is entered).
RECURSIVE RepairWalk(_, _, _, _)
RepairWalk(s, lo, hi, w) ==
    IF lo > hi THEN w
    ELSE IF lo = hi THEN RepairStep(s, lo, w)
    ELSE LET mid == (lo + hi) \div 2
             left == RepairWalk(s, lo, mid, w)
         IN IF Len(left.out) >= 0 THEN RepairWalk(s, mid + 1, hi, left)
            ELSE left

Repair(s) ==
    LET straight == StraightenQuotes(s)
    IN RepairWalk(straight, 1, Len(straight), RepairStart).out

\* The decode-failure marker: it carries the original text and has none of
\* the keys the call sites read.
DecodeFailure(raw) == [t |-> "failure", v |-> raw]

IsFailure(x) == x.t = "failure"

\* Strict decoding, then strict decoding of the repaired text.
FirstDecoded(strict, repaired, raw) ==
    IF strict.ok THEN strict.val
    ELSE IF repaired.ok THEN repaired.val
    ELSE DecodeFailure(raw)

TolerantDecode(target, raw) ==
    FirstDecoded(StrictDecode(target), StrictDecode(Repair(target)), raw)

\* The text the decoder is given: the candidate, or the whole text.
Target(candidate, raw) == IF candidate.found THEN candidate.text ELSE raw

parseLLMJson(x) ==
    IF ~IsString(x) THEN x
    ELSE TolerantDecode(Target(Locate(FenceStrip(x.v)), x.v), x.v)

-----------------------------------------------------------------------------
(* Constants and literals of the page.                                     *)

LEGAL_AGENT_ID == "699be53fabc429f336b46816"
MEITY_AGENT_ID == "699be53f0ed57996e7d19026"

\* activeAgentId = null
NoAgent == "null"

\* SAMPLE_UPDATES.length
SampleUpdatesLength == 3

\* new Date().toISOString() at time t: a non-empty text that grows with t.
ISOString(t) == NumToString(t) \o <<"Z">>

\* An AIAgentResponse: the promise resolves with success true or false, or
\* rejects; response is an object {result, message} or undefined.
AgentResult(outcome, response, error) ==
    [outcome |-> outcome, response |-> response, error |-> error]

Response(result, message) ==
    Obj(<<<<Key.result, result>>, <<Key.message, message>>>>)

Succeeds(result, message) ==
    AgentResult("success", Response(result, message), Undefined)

\* result.response?.result and result.response?.message
ResultOf(r) == Get(r.response, Key.result)
MessageOf(r) == Get(r.response, Key.message)

-----------------------------------------------------------------------------
(* handleSendMessage (lines 571-658).                                      *)

\* A variant of UserMessage that does not trim the input.
UserMessageUntrimmed(overrideMessage) == OrElse(overrideMessage, Str(inputValue))

\* overrideMessage || inputValue.trim()
UserMessage(overrideMessage) == OrElse(overrideMessage, Str(Trim(inputValue)))

\* A variant of SendRejected without the chatLoading test.
SendRejectedEmptyOnly(userMessage) == ~Truthy(userMessage)

\* if (!userMessage || chatLoading) return
SendRejected(userMessage) == ~Truthy(userMessage) \/ chatLoading

\* frameworkFilter !== 'All' ? `[${frameworkFilter}] ${userMessage}` : userMessage
FinalMessage(userMessage) ==
    IF frameworkFilter # Lit.All
    THEN Str(Concat(<<<<"[">>, frameworkFilter, <<"]", " ">>,
                      JSToString(userMessage)>>))
    ELSE userMessage

\* A ChatMessage.  Its timestamp, which no handler reads, is left out.
Message(id, role, content, parsed, frameworks, isLoading, error) ==
    [id |-> id, role |-> role, content |-> content, parsed |-> parsed,
     frameworks |-> frameworks, isLoading |-> isLoading, error |-> error]

UserMsg(id, userMessage) ==
    Message(id, "user", userMessage, Undefined, Undefined, Undefined,
            Undefined)

LoadingMsg(id) ==
    Message(id, "assistant", EmptyStr, Undefined, Undefined, Bool(TRUE),
            Undefined)

\* callAIAgent(message, agent, options): the promise it returns.
Call(agent, message, session, loadingMsgId) ==
    [agent |-> agent, n |-> agentCalls[agent] + 1, message |-> message,
     session |-> session, loadingMsgId |-> loadingMsgId]

TotalCalls == agentCalls[LEGAL_AGENT_ID] + agentCalls[MEITY_AGENT_ID]

Outstanding(agent) == {c \in inflight : c.agent = agent}

\* A call of a request handler: whether it passed the guard, and what the
\* guard read (the loading flag, whether there was a message).
Attempt(handler, accepted, loading, nonEmpty) ==
    [handler |-> handler, accepted |-> accepted, loading |-> loading,
     nonEmpty |-> nonEmpty]

NoAttempt == Attempt("none", FALSE, FALSE, FALSE)

\* The synchronous part, up to the await of callAIAgent.
HandleSendMessage(overrideMessage) ==
    LET userMessage == UserMessage(overrideMessage)
        loadingMsgId == idCounter + 2
    IN IF SendRejected(userMessage)
       THEN /\ lastCall' = Attempt("send", FALSE, chatLoading,
                                   Truthy(userMessage))
            /\ UNCHANGED stateVars
       ELSE /\ TotalCalls < MaxRequests
            /\ lastCall' = Attempt("send", TRUE, chatLoading, TRUE)
            /\ messages' = messages \o <<UserMsg(idCounter + 1, userMessage),
                                         LoadingMsg(loadingMsgId)>>
            /\ inputValue' = <<>>
            /\ chatLoading' = TRUE
            /\ activeAgentId' = LEGAL_AGENT_ID
            /\ agentCalls' = [agentCalls EXCEPT ![LEGAL_AGENT_ID] = @ + 1]
            /\ inflight' = inflight \cup
                              {Call(LEGAL_AGENT_ID, FinalMessage(userMessage),
                                    TRUE, loadingMsgId)}
            /\ idCounter' = idCounter + 2
            /\ clock' = clock + 1
            /\ UNCHANGED <<frameworkFilter, updates, updatesSummary,
                           updatesLastChecked, updatesLoading, updatesError,
                           reviewedUpdates, sampleData, settled, dfLog,
                           clicked>>

\* A variant of AnswerText that tries result.text and the raw text before
\* response.message.
AnswerTextRawFirst(parsed, result, message) ==
    OrElse(Get(parsed, Key.answer),
    OrElse(IF TypeofObject(result) THEN Get(result, Key.answer) ELSE EmptyStr,
    OrElse(Get(result, Key.text),
    OrElse(IF IsString(result) THEN result ELSE EmptyStr,
    OrElse(message,
           Str(Lit.UnableToParse))))))

\* The fallback chain of lines 604-610.
AnswerText(parsed, result, message) ==
    OrElse(Get(parsed, Key.answer),
    OrElse(IF TypeofObject(result) THEN Get(result, Key.answer) ELSE EmptyStr,
    OrElse(message,
    OrElse(Get(result, Key.text),
    OrElse(IF IsString(result) THEN result ELSE EmptyStr,
           Str(Lit.UnableToParse))))))

\* A variant of ArrayField that keeps the elements that are objects with
\* at least one key.
ArrayFieldShaped(parsed, key) ==
    IF IsArray(Get(parsed, key))
    THEN Arr(SelectSeq(Get(parsed, key).v,
                       LAMBDA e : e.t = "object" /\ e.v # <<>>))
    ELSE Arr(<<>>)

\* Array.isArray(parsed?.key) ? parsed.key : []
ArrayField(parsed, key) ==
    IF IsArray(Get(parsed, key)) THEN Get(parsed, key) ELSE Arr(<<>>)

\* A variant of TextField without the default.
TextFieldRaw(parsed, key) == Get(parsed, key)

\* parsed?.key || ''
TextField(parsed, key) == OrElse(Get(parsed, key), EmptyStr)

\* A variant of ParsedRecord with two of the texts exchanged.
ParsedRecordCrossed(answerText, sources, crossFramework, precedenceNotes, complianceSteps) ==
    Obj(<<<<Key.answer, answerText>>,
          <<Key.sources, sources>>,
          <<Key.cross_framework_analysis, precedenceNotes>>,
          <<Key.precedence_notes, crossFramework>>,
          <<Key.compliance_steps, complianceSteps>>>>)

\* The object literal of lines 624-630.
ParsedRecord(answerText, sources, crossFramework, precedenceNotes, complianceSteps) ==
    Obj(<<<<Key.answer, answerText>>,
          <<Key.sources, sources>>,
          <<Key.cross_framework_analysis, crossFramework>>,
          <<Key.precedence_notes, precedenceNotes>>,
          <<Key.compliance_steps, complianceSteps>>>>)

\* The record built on the chat call site from result.response (lines
\* 602-615 and 624-630).
RecordOf(parsed, result, message) ==
    ParsedRecord(AnswerText(parsed, result, message),
                 ArrayField(parsed, Key.sources),
                 TextField(parsed, Key.cross_framework_analysis),
                 TextField(parsed, Key.precedence_notes),
                 ArrayField(parsed, Key.compliance_steps))

NormalizeChat(result, message) ==
    RecordOf(parseLLMJson(result), result, message)

Labels(frameworks) == [t |-> "array", v |-> frameworks]

\* assistantMsg (lines 619-632)
AssistantOf(id, record) ==
    Message(id, "assistant", Get(record, Key.answer), record,
            Labels(detectFrameworks(Get(record, Key.answer),
                                    Get(record, Key.sources))),
            Undefined, Undefined)

AssistantMsg(id, r) ==
    AssistantOf(id, NormalizeChat(ResultOf(r), MessageOf(r)))

\* A variant of ErrorMsg with the error text as the content.
ErrorMsgAsContent(id, error) ==
    Message(id, "assistant", error, Undefined, Undefined, Undefined,
            Undefined)

\* errorMsg (lines 636-642 and 646-652)
ErrorMsg(id, error) ==
    Message(id, "assistant", EmptyStr, Undefined, Undefined, Undefined,
            error)

\* A variant of ReplyMsg that reports a result it cannot decode as an error.
ReplyMsgStrict(id, r) ==
    IF r.outcome = "success" /\ IsFailure(parseLLMJson(ResultOf(r)))
    THEN ErrorMsg(id, Str(Lit.UnableToParse))
    ELSE IF r.outcome = "success" THEN AssistantMsg(id, r)
    ELSE ErrorMsg(id, OrElse(r.error, Str(Lit.NetworkError)))

\* The message that replaces the placeholder.
ReplyMsg(id, r) ==
    CASE r.outcome = "success" -> AssistantMsg(id, r)
      [] r.outcome = "failure" ->
            ErrorMsg(id, OrElse(r.error, Str(Lit.FailedLegal)))
      [] OTHER -> ErrorMsg(id, Str(Lit.NetworkError))

\* The record of a settled promise.
Settled(c, r) == [call |-> c, result |-> r]

\* No promise has settled yet.
NoneSettled ==
    Settled(Call("none", Undefined, FALSE, 0),
            AgentResult("none", Undefined, Undefined))

\* A variant of ReplaceById that replaces every assistant message.
ReplaceByRole(prev, loadingMsgId, msg) ==
    [i \in 1..Len(prev) |-> IF prev[i].role = "assistant" THEN msg ELSE prev[i]]

\* prev.map((m) => (m.id === loadingMsgId ? msg : m))
ReplaceById(prev, loadingMsgId, msg) ==
    [i \in 1..Len(prev) |-> IF prev[i].id = loadingMsgId THEN msg ELSE prev[i]]

\* A variant of ChatSettle that releases the gate in the try block only:
\* a rejected promise leaves chatLoading and activeAgentId as they are.
ChatSettleInTry(c, r) ==
    /\ c \in inflight
    /\ c.agent = LEGAL_AGENT_ID
    /\ messages' = ReplaceById(messages, c.loadingMsgId,
                               ReplyMsg(c.loadingMsgId, r))
    /\ chatLoading' = IF r.outcome = "throw" THEN chatLoading ELSE FALSE
    /\ activeAgentId' = IF r.outcome = "throw" THEN activeAgentId ELSE NoAgent
    /\ inflight' = inflight \ {c}
    /\ settled' = Settled(c, r)
    /\ clock' = clock + 1
    /\ UNCHANGED <<inputValue, frameworkFilter, updates, updatesSummary,
                   updatesLastChecked, updatesLoading, updatesError,
                   reviewedUpdates, sampleData, agentCalls, idCounter, dfLog,
                   lastCall, clicked>>

\* The continuation of handleSendMessage after the await (lines 601-657).
ChatSettle(c, r) ==
    /\ c \in inflight
    /\ c.agent = LEGAL_AGENT_ID
    /\ messages' = ReplaceById(messages, c.loadingMsgId,
                               ReplyMsg(c.loadingMsgId, r))
    /\ chatLoading' = FALSE
    /\ activeAgentId' = NoAgent
    /\ inflight' = inflight \ {c}
    /\ settled' = Settled(c, r)
    /\ clock' = clock + 1
    /\ UNCHANGED <<inputValue, frameworkFilter, updates, updatesSummary,
                   updatesLastChecked, updatesLoading, updatesError,
                   reviewedUpdates, sampleData, agentCalls, idCounter, dfLog,
                   lastCall, clicked>>

-----------------------------------------------------------------------------
(* handleCheckUpdates (lines 661-693).                                     *)

\* A variant of CheckRejected without the updatesLoading test.
CheckNeverRejected == FALSE

\* if (updatesLoading) return
CheckRejected == updatesLoading

\* A variant of HandleCheckUpdates that leaves updatesError as it is.
HandleCheckUpdatesKeepError ==
    IF CheckRejected
    THEN /\ lastCall' = Attempt("check", FALSE, updatesLoading, TRUE)
         /\ UNCHANGED stateVars
    ELSE /\ TotalCalls < MaxRequests
         /\ lastCall' = Attempt("check", TRUE, updatesLoading, TRUE)
         /\ updatesLoading' = TRUE
         /\ UNCHANGED updatesError
         /\ activeAgentId' = MEITY_AGENT_ID
         /\ agentCalls' = [agentCalls EXCEPT ![MEITY_AGENT_ID] = @ + 1]
         /\ inflight' = inflight \cup
                           {Call(MEITY_AGENT_ID, Str(Lit.CheckUpdatesPrompt),
                                 FALSE, 0)}
         /\ UNCHANGED <<messages, inputValue, chatLoading, frameworkFilter,
                        updates, updatesSummary, updatesLastChecked,
                        reviewedUpdates, sampleData, settled, idCounter,
                        clock, dfLog, clicked>>

\* The synchronous part, up to the await of callAIAgent.
HandleCheckUpdates ==
    IF CheckRejected
    THEN /\ lastCall' = Attempt("check", FALSE, updatesLoading, TRUE)
         /\ UNCHANGED stateVars
    ELSE /\ TotalCalls < MaxRequests
         /\ lastCall' = Attempt("check", TRUE, updatesLoading, TRUE)
         /\ updatesLoading' = TRUE
         /\ updatesError' = EmptyStr
         /\ activeAgentId' = MEITY_AGENT_ID
         /\ agentCalls' = [agentCalls EXCEPT ![MEITY_AGENT_ID] = @ + 1]
         /\ inflight' = inflight \cup
                           {Call(MEITY_AGENT_ID, Str(Lit.CheckUpdatesPrompt),
                                 FALSE, 0)}
         /\ UNCHANGED <<messages, inputValue, chatLoading, frameworkFilter,
                        updates, updatesSummary, updatesLastChecked,
                        reviewedUpdates, sampleData, settled, idCounter,
                        clock, dfLog, clicked>>

\* A variant of LastChecked without the current time.
LastCheckedDecoded(parsed) == OrElse(Get(parsed, Key.last_checked), EmptyStr)

\* parsed?.last_checked || new Date().toISOString()
LastChecked(parsed) ==
    OrElse(Get(parsed, Key.last_checked), Str(ISOString(clock)))

\* A variant of SetUpdates that keeps the reviewed set.
SetUpdatesKeepReviewed(parsed) ==
    /\ updates' = ArrayField(parsed, Key.updates)
    /\ updatesSummary' = TextField(parsed, Key.summary)
    /\ updatesLastChecked' = LastChecked(parsed)
    /\ UNCHANGED reviewedUpdates

\* The four setters of lines 676-679.
SetUpdates(parsed) ==
    /\ updates' = ArrayField(parsed, Key.updates)
    /\ updatesSummary' = TextField(parsed, Key.summary)
    /\ updatesLastChecked' = LastChecked(parsed)
    /\ reviewedUpdates' = {}

\* A variant of UpdatesSettle that empties the feed when the check fails.
UpdatesSettleClearing(c, r) ==
    /\ c \in inflight
    /\ c.agent = MEITY_AGENT_ID
    /\ IF r.outcome = "success"
       THEN /\ SetUpdates(parseLLMJson(ResultOf(r)))
            /\ UNCHANGED updatesError
       ELSE /\ updatesError' =
                  IF r.outcome = "failure"
                  THEN OrElse(r.error, Str(Lit.FailedUpdates))
                  ELSE Str(Lit.NetworkError)
            /\ SetUpdates(Undefined)
    /\ clicked' = IF r.outcome = "success" THEN {} ELSE clicked
    /\ updatesLoading' = FALSE
    /\ activeAgentId' = NoAgent
    /\ inflight' = inflight \ {c}
    /\ settled' = Settled(c, r)
    /\ clock' = clock + 1
    /\ UNCHANGED <<messages, inputValue, chatLoading, frameworkFilter,
                   sampleData, agentCalls, idCounter, dfLog,
                   lastCall>>

\* The continuation of handleCheckUpdates after the await (lines 673-692).
UpdatesSettle(c, r) ==
    /\ c \in inflight
    /\ c.agent = MEITY_AGENT_ID
    /\ IF r.outcome = "success"
       THEN /\ SetUpdates(parseLLMJson(ResultOf(r)))
            /\ UNCHANGED updatesError
       ELSE /\ updatesError' =
                  IF r.outcome = "failure"
                  THEN OrElse(r.error, Str(Lit.FailedUpdates))
                  ELSE Str(Lit.NetworkError)
            /\ UNCHANGED <<updates, updatesSummary, updatesLastChecked,
                           reviewedUpdates>>
    /\ clicked' = IF r.outcome = "success" THEN {} ELSE clicked
    /\ updatesLoading' = FALSE
    /\ activeAgentId' = NoAgent
    /\ inflight' = inflight \ {c}
    /\ settled' = Settled(c, r)
    /\ clock' = clock + 1
    /\ UNCHANGED <<messages, inputValue, chatLoading, frameworkFilter,
                   sampleData, agentCalls, idCounter, dfLog,
                   lastCall>>

-----------------------------------------------------------------------------
(* The other event handlers of the page.                                   *)

\* onChange of the input (line 869); the input is disabled while chatLoading.
SetInputValue(value) ==
    /\ ~chatLoading
    /\ inputValue' = value
    /\ UNCHANGED <<messages, chatLoading, frameworkFilter, activeAgentId,
                   updates, updatesSummary, updatesLastChecked,
                   updatesLoading, updatesError, reviewedUpdates, sampleData,
                   inflight, agentCalls, settled, idCounter, clock, dfLog,
                   lastCall, clicked>>

\* onClick of a filter button (line 803)
SetFrameworkFilter(fw) ==
    /\ frameworkFilter' = fw
    /\ UNCHANGED <<messages, inputValue, chatLoading, activeAgentId,
                   updates, updatesSummary, updatesLastChecked,
                   updatesLoading, updatesError, reviewedUpdates, sampleData,
                   inflight, agentCalls, settled, idCounter, clock, dfLog,
                   lastCall, clicked>>

\* onClick of the sample-data switch (line 762)
ToggleSampleData ==
    /\ sampleData' = ~sampleData
    /\ UNCHANGED <<messages, inputValue, chatLoading, frameworkFilter,
                   activeAgentId, updates, updatesSummary, updatesLastChecked,
                   updatesLoading, updatesError, reviewedUpdates,
                   inflight, agentCalls, settled, idCounter, clock, dfLog,
                   lastCall, clicked>>

\* displayUpdates.length (line 568)
DisplayUpdatesLength ==
    IF sampleData /\ Len(updates.v) = 0 THEN SampleUpdatesLength
    ELSE Len(updates.v)

\* UpdateCard.handleClick for the card with index i (lines 254-257, 942-946)
ReviewUpdate(i) ==
    /\ i \in 0..(DisplayUpdatesLength - 1)
    /\ reviewedUpdates' =
          IF i \in reviewedUpdates THEN reviewedUpdates
          ELSE reviewedUpdates \cup {i}
    /\ clicked' = clicked \cup {i}
    /\ UNCHANGED <<messages, inputValue, chatLoading, frameworkFilter,
                   activeAgentId, updates, updatesSummary, updatesLastChecked,
                   updatesLoading, updatesError, sampleData,
                   inflight, agentCalls, settled, idCounter, clock, dfLog,
                   lastCall>>

-----------------------------------------------------------------------------
(* The page: what the user does and what the agents answer.                *)

\* The page after its first render.
PageAtStart ==
    /\ messages = <<>>
    /\ inputValue = <<>>
    /\ chatLoading = FALSE
    /\ frameworkFilter = Lit.All
    /\ activeAgentId = NoAgent
    /\ updates = Arr(<<>>)
    /\ updatesSummary = EmptyStr
    /\ updatesLastChecked = EmptyStr
    /\ updatesLoading = FALSE
    /\ updatesError = EmptyStr
    /\ reviewedUpdates = {}
    /\ sampleData = FALSE

InitPage ==
    /\ PageAtStart
    /\ inflight = {}
    /\ agentCalls = [a \in {LEGAL_AGENT_ID, MEITY_AGENT_ID, "none"} |-> 0]
    /\ settled = NoneSettled
    /\ idCounter = 0
    /\ clock = 0
    /\ dfLog = <<>>
    /\ lastCall = NoAttempt
    /\ clicked = {}

Init == InitPage

\* Texts the user and the agents supply.
Txt ==
    [q |-> <<"q">>,
     boom |-> <<"b","o","o","m">>,
     ok |-> <<"o","k">>,
     dpdpa |-> <<"d","p","d","p","a">>,
     ITAmendmentAct |-> <<"I","T"," ","A","m","e","n","d","m","e","n","t",
          " ","A","c","t">>,
     m |-> <<"m">>,
     c |-> <<"c">>,
     p |-> <<"p">>,
     s |-> <<"s">>,
     Sure |-> <<"S","u","r","e",":"," ">>,
     Hope |-> <<" ","H","o","p","e"," ","i","t"," ","h","e","l","p","s",".">>,
     json |-> <<"j","s","o","n">>,
     Prose |-> <<"C","o","n","s","e","n","t"," ","m","u","s","t"," ","b",
          "e"," ","f","r","e","e",".">>,
     Truncated |-> <<"{","\"","a","n","s","w","e","r","\"",":","\"","C","o",
          "n","s","e","n","t">>,
     TrailingComma |-> <<"{","\"","a","n","s","w","e","r","\"",":","\"","o",
          "k","\"",",","}">>,
     SmartQuotes |-> <<"{","ldquo","a","n","s","w","e","r","rdquo",":",
          "ldquo","o","k","rdquo","}">>,
     ArrayText |-> <<"[","1",",","2","]">>]

Citation(act, section, description) ==
    Obj(<<<<Key.act, Str(act)>>, <<Key.section, Str(section)>>,
          <<Key.description, Str(description)>>>>)

\* What the legal agent answers on the page.
PageChatResults ==
    {Succeeds(Obj(<<<<Key.answer, Str(Lit.DPDPA)>>,
                    <<Key.sources, Arr(<<Citation(Lit.ITAct2000, Txt.q, Txt.q)>>)>>>>),
              Undefined),
     AgentResult("failure", Undefined, Str(Txt.boom)),
     AgentResult("failure", Undefined, Undefined),
     AgentResult("throw", Undefined, Undefined)}

\* What the MeitY agent answers on the page.
PageUpdateResults ==
    {Succeeds(Obj(<<<<Key.updates, Arr(<<Obj(<<<<Key.title, Str(Txt.q)>>>>),
                                       Obj(<<>>)>>)>>,
                    <<Key.summary, Str(Txt.ok)>>>>),
              Undefined),
     Succeeds(Str(Txt.ok), Undefined),
     AgentResult("failure", Undefined, Str(Txt.boom)),
     AgentResult("failure", Undefined, Undefined),
     AgentResult("throw", Undefined, Undefined)}

\* The promise of callAIAgent settles: the continuation of a handler that
\* awaits it (lines 598, 667) is run once it has.
ChatSettles ==
    \E c \in inflight : \E r \in PageChatResults : ChatSettle(c, r)

UpdatesSettles ==
    \E c \in inflight : \E r \in PageUpdateResults : UpdatesSettle(c, r)

\* The two request handlers with the input and the filter: what the user
\* types, which filter button is clicked, which suggested query is clicked
\* (undefined: the send button or the Enter key).  The sample-data
\* switch and the update cards write only sampleData and reviewedUpdates,
\* which these handlers do not read.
Next ==
    \/ \E value \in {<<" ">>, <<" ", "q">>} : SetInputValue(value)
    \/ \E fw \in {Lit.All, Lit.DPDPA} : SetFrameworkFilter(fw)
    \/ \E overrideMessage \in {Undefined, Str(Lit.SuggestedQuery)} :
          HandleSendMessage(overrideMessage)
    \/ ChatSettles
    \/ HandleCheckUpdates
    \/ UpdatesSettles

Spec == Init /\ [][Next]_vars

\* The two request handlers alone, the only writers of chatLoading and
\* updatesLoading, with questions that are not empty.
NextLive ==
    \/ HandleSendMessage(Str(Lit.SuggestedQuery))
    \/ ChatSettles
    \/ HandleCheckUpdates
    \/ UpdatesSettles

\* The request handlers when every promise settles.
SpecLive ==
    Init /\ [][NextLive]_vars /\ WF_vars(ChatSettles) /\ WF_vars(UpdatesSettles)

\* The update feed: the update check, the sample-data switch and the
\* clicks on the cards shown (at most the three sample cards).
NextFeed ==
    \/ HandleCheckUpdates
    \/ UpdatesSettles
    \/ ToggleSampleData
    \/ \E i \in 0..(SampleUpdatesLength - 1) : ReviewUpdate(i)

SpecFeed == Init /\ [][NextFeed]_vars

-----------------------------------------------------------------------------
(* detectFrameworks called directly, on texts made of fragments.           *)

\* One call: its arguments and its result are logged.
CallDetectFrameworks(text, sources, limit) ==
    /\ Len(dfLog) < limit
    /\ dfLog' = Append(dfLog, [text |-> text, sources |-> sources,
                               result |-> detectFrameworks(text, sources)])
    /\ UNCHANGED <<pageVars, inflight, agentCalls, settled, idCounter, clock,
                   lastCall, clicked>>

Fragments ==
    {Txt.dpdpa, Lit.DigitalPersonal, Lit.ITAct2000, Lit.ITAct2008,
     Lit.InformationTechnologyAct, Txt.ITAmendmentAct, Lit.Y2000, Lit.Y2008,
     <<" ">>, <<"\n">>, <<"-">>}

\* The texts of at most MaxFrags fragments, and no text.
DetectTexts ==
    {Str(Concat(fs)) : fs \in UNION {[1..n -> Fragments] : n \in 0..MaxFrags}}
    \cup {Undefined, Null}

DetectSources ==
    {Undefined, Null, Arr(<<>>),
     Arr(<<Citation(Lit.ITAct2000, Txt.q, Txt.q)>>),
     Arr(<<Citation(Txt.q, Txt.q, Lit.DigitalPersonal),
           Citation(Txt.ITAmendmentAct \o <<",">> \o Lit.Y2008, Txt.q, Txt.q)>>),
     Arr(<<Num(2000)>>)}

NextDetect ==
    \E text \in DetectTexts : \E sources \in DetectSources :
        CallDetectFrameworks(text, sources, 1)

SpecDetect == Init /\ [][NextDetect]_vars

\* The arguments of the repeated calls.
PureInputs ==
    {<<Str(Txt.dpdpa), Undefined>>,
     <<Str(Lit.ITAct2000), Arr(<<>>)>>,
     <<Str(Txt.q), Arr(<<Citation(Lit.ITAct2008, Txt.q, Txt.q)>>)>>,
     <<Str(Txt.dpdpa \o <<" ">> \o Lit.ITAct2000), Arr(<<>>)>>,
     <<Str(Txt.q), Undefined>>,
     <<Undefined, Undefined>>}

NextPure ==
    \E in \in PureInputs : CallDetectFrameworks(in[1], in[2], MaxCalls)

SpecPure == Init /\ [][NextPure]_vars

-----------------------------------------------------------------------------
(* One request, answered with results of every shape.                      *)

\* An object of the pairs whose value is not undefined (an absent key).
ObjectOf(pairs) == Obj(SelectPairs(pairs))


\* The objects the legal agent may answer with.
ChatObjects ==
    {ObjectOf(<<<<Key.answer, a>>, <<Key.sources, s>>,
                <<Key.cross_framework_analysis, c>>,
                <<Key.precedence_notes, p>>, <<Key.compliance_steps, k>>>>) :
        a \in {Undefined, EmptyStr, Str(Lit.DPDPA), Num(0)},
        s \in {Undefined, Arr(<<>>), Str(Txt.q),
               Arr(<<Citation(Lit.ITAct2000, Txt.q, Txt.q)>>)},
        c \in {Undefined, EmptyStr, Str(Txt.c)},
        p \in {Undefined, Str(Txt.p)},
        k \in {Undefined, Arr(<<Str(Txt.s)>>)}}

\* A JSON text as it is, between prose, and in a code fence between prose.
InProse(j) == Cat3(Txt.Sure, j, Txt.Hope)
InFence(j) ==
    Concat(<<Txt.Sure, <<"\n">>, Fence, Txt.json, <<"\n">>, j, <<"\n">>, Fence,
             Txt.Hope>>)

WrappedTexts(j) == {j, InProse(j), InFence(j)}

\* Objects whose fields are not of the declared types (lines 20-32): an
\* array with an element that is no citation, numbers, booleans and objects
\* where a text is declared, nulls, a citation without section and
\* description, and a key the record does not have.
ChatExtras ==
    {Obj(<<<<Key.answer, Str(Txt.ok)>>,
           <<Key.sources, Arr(<<Citation(Lit.ITAct2000, Txt.q, Txt.q), Num(5)>>)>>,
           <<Key.cross_framework_analysis, Num(7)>>,
           <<Key.precedence_notes, Obj(<<<<Key.text, Str(Txt.ok)>>>>)>>,
           <<Key.compliance_steps, Arr(<<Str(Txt.s), Num(1)>>)>>,
           <<Key.title, Str(Txt.q)>>>>),
     Obj(<<<<Key.answer, Null>>, <<Key.sources, Null>>,
           <<Key.cross_framework_analysis, Null>>,
           <<Key.precedence_notes, Null>>,
           <<Key.compliance_steps, Null>>>>),
     Obj(<<<<Key.answer, Bool(TRUE)>>,
           <<Key.sources, Arr(<<Obj(<<<<Key.act, Str(Lit.ITAct2000)>>>>)>>)>>,
           <<Key.precedence_notes, Bool(TRUE)>>>>),
     Obj(<<<<Key.answer, EmptyStr>>, <<Key.text, Str(Txt.ok)>>>>)}

\* What response.result may be on a successful chat call.
ChatResultValues ==
    ChatObjects \cup ChatExtras
    \cup {Str(t) : t \in UNION {WrappedTexts(JSONstringify(o)) :
                                   o \in ChatObjects}}
    \cup {Undefined, Null, Num(7), Bool(TRUE), Arr(<<Num(1)>>), EmptyStr,
          Str(Txt.Prose), Str(Txt.Truncated), Str(InProse(Txt.Truncated)),
          Str(Txt.TrailingComma), Str(Txt.SmartQuotes), Str(Txt.ArrayText),
          Obj(<<<<Key.text, Str(Txt.ok)>>>>)}

MessageValues == {Undefined, Str(Txt.m)}

NormChatResults ==
    {Succeeds(res, msg) : res \in ChatResultValues, msg \in MessageValues}
    \cup {AgentResult("success", Undefined, Undefined),
          AgentResult("failure", Undefined, Str(Txt.boom)),
          AgentResult("throw", Undefined, Undefined)}

\* The objects the MeitY agent may answer with.
UpdateObjects ==
    {ObjectOf(<<<<Key.updates, u>>, <<Key.summary, m>>, <<Key.last_checked, l>>>>) :
        u \in {Undefined, Arr(<<>>), Arr(<<Obj(<<<<Key.title, Str(Txt.q)>>>>)>>),
               Str(Txt.q)},
        m \in {Undefined, Str(Txt.ok), Num(0)},
        l \in {Undefined, Str(Lit.Y2008)}}

\* Objects whose fields are not of the declared types (lines 45-53): an
\* update without fields and an element that is no update, a number and
\* an object where the summary text is declared, an empty last_checked.
UpdateExtras ==
    {Obj(<<<<Key.updates, Arr(<<Obj(<<<<Key.title, Str(Txt.q)>>>>),
                                 Obj(<<>>), Num(5)>>)>>,
           <<Key.summary, Num(7)>>,
           <<Key.last_checked, EmptyStr>>>>),
     Obj(<<<<Key.updates, Null>>,
           <<Key.summary, Obj(<<<<Key.text, Str(Txt.ok)>>>>)>>,
           <<Key.last_checked, Null>>>>)}

UpdateResultValues ==
    UpdateObjects \cup UpdateExtras
    \cup {Str(t) : t \in UNION {WrappedTexts(JSONstringify(o)) :
                                   o \in UpdateObjects}}
    \cup {Undefined, Null, Num(7), Arr(<<Obj(<<<<Key.title, Str(Txt.q)>>>>)>>),
          EmptyStr, Str(Txt.Prose), Str(Txt.Truncated), Str(Txt.ArrayText)}

NormUpdateResults ==
    {Succeeds(res, msg) : res \in UpdateResultValues, msg \in MessageValues}
    \cup {AgentResult("success", Undefined, Undefined),
          AgentResult("failure", Undefined, Str(Txt.boom)),
          AgentResult("throw", Undefined, Undefined)}

\* The first request of a session and its answer.
NextNorm ==
    \/ /\ TotalCalls = 0
       /\ HandleSendMessage(Str(Lit.SuggestedQuery))
    \/ /\ TotalCalls = 0
       /\ HandleCheckUpdates
    \/ \E c \in inflight : \E r \in NormChatResults : ChatSettle(c, r)
    \/ \E c \in inflight : \E r \in NormUpdateResults : UpdatesSettle(c, r)

SpecNorm == Init /\ [][NextNorm]_vars

-----------------------------------------------------------------------------
(* Properties of the request handlers.                                     *)

\* The message standing where the placeholder of call c stood.
ReplyTo(c) ==
    messages[CHOOSE i \in 1..Len(messages) : messages[i].id = c.loadingMsgId]

\* The promise settled last is a successful call of the given agent.
Succeeded(agent) ==
    settled.call.agent = agent /\ settled.result.outcome = "success"

\* The state the update check writes.
updateVars ==
    <<updates, updatesSummary, updatesLastChecked, updatesLoading,
      updatesError, reviewedUpdates>>

\* C1: at most one chat request to the legal agent is outstanding at any
\* time, and while one is outstanding no step (so no call of
\* handleSendMessage) issues a callAIAgent call to the legal agent or
\* changes the number of messages.
SingleFlightChat ==
    /\ [](Cardinality(Outstanding(LEGAL_AGENT_ID)) <= 1)
    /\ [][Outstanding(LEGAL_AGENT_ID) # {} =>
             /\ Outstanding(LEGAL_AGENT_ID)' \subseteq
                   Outstanding(LEGAL_AGENT_ID)
             /\ agentCalls'[LEGAL_AGENT_ID] = agentCalls[LEGAL_AGENT_ID]
             /\ Len(messages') = Len(messages)]_vars

\* A suggested query was clicked while a chat request was outstanding, and
\* that request is still the only one.
SendWhileOutstanding ==
    /\ lastCall = Attempt("send", FALSE, TRUE, TRUE)
    /\ chatLoading
    /\ Cardinality(Outstanding(LEGAL_AGENT_ID)) = 1
    /\ agentCalls[LEGAL_AGENT_ID] = 1
    /\ Len(messages) = 2

\* C2: at most one update check is outstanding at any time; while one is
\* outstanding no step issues a callAIAgent call to the MeitY agent, only
\* its completion changes the state the check writes, and a call of
\* handleCheckUpdates that is turned away changes no state of the page.
SingleFlightCheck ==
    /\ [](Cardinality(Outstanding(MEITY_AGENT_ID)) <= 1)
    /\ [][Outstanding(MEITY_AGENT_ID) # {} =>
             /\ Outstanding(MEITY_AGENT_ID)' \subseteq
                   Outstanding(MEITY_AGENT_ID)
             /\ agentCalls'[MEITY_AGENT_ID] = agentCalls[MEITY_AGENT_ID]
             /\ (Outstanding(MEITY_AGENT_ID)' = Outstanding(MEITY_AGENT_ID)
                   => UNCHANGED updateVars)
             /\ (lastCall' # lastCall /\ lastCall'.handler = "check"
                   => UNCHANGED <<pageVars, inflight, agentCalls>>)]_vars

\* The update button's handler ran while an update check was outstanding,
\* and that check is still the only one.
CheckWhileOutstanding ==
    /\ lastCall = Attempt("check", FALSE, TRUE, TRUE)
    /\ updatesLoading
    /\ Cardinality(Outstanding(MEITY_AGENT_ID)) = 1
    /\ agentCalls[MEITY_AGENT_ID] = 1

FiveKeys ==
    <<Key.answer, Key.sources, Key.cross_framework_analysis,
      Key.precedence_notes, Key.compliance_steps>>

\* C3: after a successful agent result of any shape, the placeholder has
\* become an assistant message with a parsed record and no error, and an
\* update check has left updatesError empty.
NormalizationNeverSurfaces ==
    /\ Succeeded(LEGAL_AGENT_ID) =>
          LET m == ReplyTo(settled.call)
          IN /\ m.role = "assistant"
             /\ m.error = Undefined
             /\ m.isLoading = Undefined
             /\ m.parsed.t = "object"
             /\ [i \in 1..Len(m.parsed.v) |-> m.parsed.v[i][1]] = FiveKeys
    /\ Succeeded(MEITY_AGENT_ID) => updatesError = EmptyStr

\* A successful chat result whose text cannot be decoded has been shown
\* without an error.
UndecodableShown ==
    /\ Succeeded(LEGAL_AGENT_ID)
    /\ IsString(ResultOf(settled.result))
    /\ IsFailure(parseLLMJson(ResultOf(settled.result)))
    /\ ReplyTo(settled.call).error = Undefined
    /\ ReplyTo(settled.call).content = ResultOf(settled.result)

\* C4: for a successful chat result that is a non-empty text without a
\* balanced bracketed region, and for every response.message, the record
\* has the text as its answer and every other field at its default.
PlainProseFallback ==
    (/\ Succeeded(LEGAL_AGENT_ID)
     /\ IsString(ResultOf(settled.result))
     /\ ResultOf(settled.result) # EmptyStr
     /\ ~Locate(FenceStrip(ResultOf(settled.result).v)).found)
    => ReplyTo(settled.call).parsed =
          ParsedRecord(ResultOf(settled.result), Arr(<<>>), EmptyStr,
                       EmptyStr, Arr(<<>>))

\* The record's fields are those of object j, or the defaults.
FieldsOf(record, j) ==
    \A i \in 1..Len(FiveKeys) :
        Get(record, FiveKeys[i]) =
            IF HasKey(j, FiveKeys[i]) THEN Get(j, FiveKeys[i])
            ELSE IF FiveKeys[i] \in {Key.sources, Key.compliance_steps}
            THEN Arr(<<>>)
            ELSE EmptyStr

\* C5: for a successful chat result that is the JSON text of an object,
\* unwrapped, each field of the record equals the JSON's field of that
\* name, or its default when the JSON has no such field.
RoundTrip ==
    (/\ Succeeded(LEGAL_AGENT_ID)
     /\ IsString(ResultOf(settled.result))
     /\ StrictDecode(ResultOf(settled.result).v).ok
     /\ StrictDecode(ResultOf(settled.result).v).val.t = "object")
    => FieldsOf(ReplyTo(settled.call).parsed,
                StrictDecode(ResultOf(settled.result).v).val)

\* The result text holds a JSON object text between prose or in a fence.
IsWrapped(text) ==
    /\ Locate(FenceStrip(text)).found
    /\ Locate(FenceStrip(text)).text # text
    /\ StrictDecode(Locate(FenceStrip(text)).text).ok
    /\ StrictDecode(Locate(FenceStrip(text)).text).val.t = "object"

\* C6: for a successful chat result that is a JSON object text between
\* prose or in a code fence, the record equals the record produced from the
\* JSON object text alone.
WrappingIgnored ==
    (/\ Succeeded(LEGAL_AGENT_ID)
     /\ IsString(ResultOf(settled.result))
     /\ IsWrapped(ResultOf(settled.result).v))
    => ReplyTo(settled.call).parsed =
          NormalizeChat(Str(Locate(FenceStrip(ResultOf(settled.result).v)).text),
                        MessageOf(settled.result))

\* C10: for a successful chat result that is an object, the record stored
\* is the record normalization yields for that object and message again,
\* and normalizing the stored record, with any message, yields it again.
NormalizationStable ==
    (Succeeded(LEGAL_AGENT_ID) /\ ResultOf(settled.result).t = "object")
    => /\ ReplyTo(settled.call).parsed =
             NormalizeChat(ResultOf(settled.result), MessageOf(settled.result))
       /\ \A msg \in MessageValues :
             NormalizeChat(ReplyTo(settled.call).parsed, msg) =
                ReplyTo(settled.call).parsed

\* An object with an empty answer and both analysis texts was normalized
\* with a message, into a record that differs from it.
ObjectNormalized ==
    /\ Succeeded(LEGAL_AGENT_ID)
    /\ ResultOf(settled.result).t = "object"
    /\ Get(ResultOf(settled.result), Key.answer) = EmptyStr
    /\ Get(ResultOf(settled.result), Key.cross_framework_analysis) = Str(Txt.c)
    /\ Get(ResultOf(settled.result), Key.precedence_notes) = Str(Txt.p)
    /\ MessageOf(settled.result) = Str(Txt.m)
    /\ Get(ReplyTo(settled.call).parsed, Key.answer) = Str(Txt.m)
    /\ ReplyTo(settled.call).parsed # ResultOf(settled.result)

-----------------------------------------------------------------------------
(* Properties of detectFrameworks.                                         *)

FixedOrder == <<"DPDPA", "IT Act 2000", "IT Act 2008">>

\* The non-empty subsequences of FixedOrder.
OrderedLabels ==
    {SelectSeq(FixedOrder, LAMBDA l : l \in S) :
        S \in (SUBSET {FixedOrder[i] : i \in 1..Len(FixedOrder)}) \ {{}}}

\* The text argument as the function reads it: text || ''.
TextOf(call) == JSToString(OrElse(call.text, EmptyStr))

\* The sources argument as the function reads it: JSON.stringify(sources || []).
SerializedSources(call) == JSONstringify(OrElse(call.sources, Arr(<<>>)))

\* C7: every result of detectFrameworks is exactly <<"General">> or a
\* non-empty subsequence of DPDPA, IT Act 2000, IT Act 2008 in that order
\* (so without duplicates), and for a text matching the DPDPA and the
\* IT Act 2000 patterns it starts with DPDPA, IT Act 2000.
OrderStable ==
    \A i \in 1..Len(dfLog) :
        /\ dfLog[i].result = <<"General">> \/ dfLog[i].result \in OrderedLabels
        /\ (RegExpTest(RE_DPDPA, TextOf(dfLog[i]))
              /\ RegExpTest(RE_ITAct2000, TextOf(dfLog[i])))
           => /\ Len(dfLog[i].result) >= 2
              /\ SubSeq(dfLog[i].result, 1, 2) = <<"DPDPA", "IT Act 2000">>

\* A text naming the DPDPA after the IT Act 2000 was tagged.
BothTagged ==
    \E i \in 1..Len(dfLog) :
        /\ dfLog[i].text = Str(Lit.ITAct2000 \o Txt.dpdpa)
        /\ dfLog[i].result = <<"DPDPA", "IT Act 2000">>

Patterns ==
    {<<"DPDPA", RE_DPDPA>>, <<"IT Act 2000", RE_ITAct2000>>,
     <<"IT Act 2008", RE_ITAct2008>>}

Tagged(call, label) == \E k \in 1..Len(call.result) : call.result[k] = label

\* C8: each of the three labels is in the result exactly when its own
\* pattern matches the answer text (empty when null or absent) or the
\* serialized sources (those of [] when null or absent).
IndependentChecks ==
    \A i \in 1..Len(dfLog) : \A pt \in Patterns :
        Tagged(dfLog[i], pt[1]) <=>
            \/ RegExpTest(pt[2], TextOf(dfLog[i]))
            \/ RegExpTest(pt[2], SerializedSources(dfLog[i]))

\* A framework named only in a citation was tagged, next to one named only
\* in the text.
TaggedFromCitation ==
    \E i \in 1..Len(dfLog) :
        /\ dfLog[i].text = Str(Txt.dpdpa)
        /\ dfLog[i].sources = Arr(<<Citation(Lit.ITAct2000, Txt.q, Txt.q)>>)
        /\ dfLog[i].result = <<"DPDPA", "IT Act 2000">>

-----------------------------------------------------------------------------
(* Properties of what a successful call stores.                            *)

\* C11: after a successful update check whose result is an object with an
\* array under 'updates', the stored updates are that array: the same
\* elements in the same order, each as it was received, a field that an
\* element lacks still lacking.
StructuredUpdatesStored ==
    (/\ Succeeded(MEITY_AGENT_ID)
     /\ ResultOf(settled.result).t = "object"
     /\ IsArray(Get(ResultOf(settled.result), Key.updates)))
    => updates = Get(ResultOf(settled.result), Key.updates)

\* An array of an update with a title, an update without any field and a
\* number was stored as it came.
BareUpdateStored ==
    /\ Succeeded(MEITY_AGENT_ID)
    /\ ResultOf(settled.result).t = "object"
    /\ updates = Arr(<<Obj(<<<<Key.title, Str(Txt.q)>>>>), Obj(<<>>), Num(5)>>)

\* C12: after a successful update check whose decoded result is an array,
\* the stored updates are that array.
TopLevelArrayStored ==
    (/\ Succeeded(MEITY_AGENT_ID)
     /\ IsArray(parseLLMJson(ResultOf(settled.result))))
    => updates = parseLLMJson(ResultOf(settled.result))

CompleteRecord ==
    \A i \in 1..Len(messages) :
        (/\ messages[i].role = "assistant"
         /\ messages[i].isLoading = Undefined
         /\ messages[i].error = Undefined)
        => /\ messages[i].parsed.t = "object"
           /\ Len(messages[i].parsed.v) = 5
           /\ \A k \in 1..Len(FiveKeys) :
                 /\ HasKey(messages[i].parsed, FiveKeys[k])
                 /\ Get(messages[i].parsed, FiveKeys[k]).t
                       \notin {"undefined", "null"}

\* A result with a key the record does not have, and one with null under
\* every key of the record, were answered with a record.
ExtraKeyDropped ==
    /\ Succeeded(LEGAL_AGENT_ID)
    /\ \/ HasKey(ResultOf(settled.result), Key.title)
       \/ Get(ResultOf(settled.result), Key.sources) = Null
    /\ ReplyTo(settled.call).parsed.t = "object"
    /\ ~HasKey(ReplyTo(settled.call).parsed, Key.title)

\* C15: a decoded number or boolean under precedence_notes (chat) or
\* summary (update check) is stored as its string form and a decoded
\* object or array as the empty text, and the answer,
\* cross_framework_analysis and precedence_notes of every stored record and
\* the stored summary are texts.
TextCoercion ==
    LET Coerced(decoded) ==
            CASE decoded.t \in {"number", "boolean"} -> Str(JSToString(decoded))
              [] OTHER -> EmptyStr
    IN
    /\ \A i \in 1..Len(messages) :
          messages[i].parsed.t = "object" =>
              /\ IsString(Get(messages[i].parsed, Key.answer))
              /\ IsString(Get(messages[i].parsed, Key.cross_framework_analysis))
              /\ IsString(Get(messages[i].parsed, Key.precedence_notes))
    /\ IsString(updatesSummary)
    /\ (Succeeded(LEGAL_AGENT_ID)
          /\ ResultOf(settled.result).t = "object"
          /\ Get(ResultOf(settled.result), Key.precedence_notes).t
                \in {"number", "boolean", "object", "array"})
       => Get(ReplyTo(settled.call).parsed, Key.precedence_notes)
            = Coerced(Get(ResultOf(settled.result), Key.precedence_notes))
    /\ (Succeeded(MEITY_AGENT_ID)
          /\ ResultOf(settled.result).t = "object"
          /\ Get(ResultOf(settled.result), Key.summary).t
                \in {"number", "boolean", "object", "array"})
       => updatesSummary = Coerced(Get(ResultOf(settled.result), Key.summary))

\* C16: after a successful call, sources holds the objects of the decoded
\* sources, compliance_steps the texts of the decoded compliance_steps and
\* updates the objects of the decoded updates, each in their original
\* order and without the other elements; a decoded value that is absent or
\* no array gives the empty sequence.
ElementsFiltered ==
    LET parsed == parseLLMJson(ResultOf(settled.result))
        Kept(decoded, shape) ==
            IF IsArray(decoded)
            THEN Arr(SelectSeq(decoded.v, LAMBDA e : e.t = shape))
            ELSE Arr(<<>>)
    IN /\ Succeeded(LEGAL_AGENT_ID) =>
            /\ Get(ReplyTo(settled.call).parsed, Key.sources)
                 = Kept(Get(parsed, Key.sources), "object")
            /\ Get(ReplyTo(settled.call).parsed, Key.compliance_steps)
                 = Kept(Get(parsed, Key.compliance_steps), "string")
       /\ Succeeded(MEITY_AGENT_ID) =>
            updates = Kept(Get(parsed, Key.updates), "object")

\* C17: every object among the sources of every stored record has act,
\* section and description, each a text.
CitationsComplete ==
    \A i \in 1..Len(messages) :
        messages[i].parsed.t = "object" =>
            LET sources == Get(messages[i].parsed, Key.sources).v
            IN \A k \in 1..Len(sources) :
                  sources[k].t = "object" =>
                      /\ IsString(Get(sources[k], Key.act))
                      /\ IsString(Get(sources[k], Key.section))
                      /\ IsString(Get(sources[k], Key.description))

-----------------------------------------------------------------------------
(* Properties of the failure paths and of the gates.                       *)

\* C18: a step in which a call of the legal agent fails or throws replaces
\* the placeholder of that call by a message with the same id, a non-empty
\* error text (result.error when it is not empty, else a default text),
\* the empty content, no record and no frameworks, and leaves every other
\* message and the update feed as they were; a step in which the update
\* check fails or throws sets updatesError to such a text and leaves the
\* messages, the updates, the summary, the last-checked value and the
\* reviewed set as they were.
FailuresApart ==
    [][(settled' # settled /\ settled'.result.outcome # "success") =>
        LET c == settled'.call
            r == settled'.result
            given == r.outcome = "failure" /\ Truthy(r.error)
        IN IF c.agent = LEGAL_AGENT_ID
           THEN /\ Len(messages') = Len(messages)
                /\ \E i \in 1..Len(messages) :
                      /\ messages[i].id = c.loadingMsgId
                      /\ messages[i].isLoading = Bool(TRUE)
                /\ \A i \in 1..Len(messages) :
                      IF messages[i].id = c.loadingMsgId
                      THEN /\ messages'[i].id = c.loadingMsgId
                           /\ messages'[i].role = "assistant"
                           /\ IsString(messages'[i].error)
                           /\ messages'[i].error # EmptyStr
                           /\ given => messages'[i].error = r.error
                           /\ ~given => messages'[i].error
                                 \in {Str(Lit.FailedLegal), Str(Lit.NetworkError)}
                           /\ messages'[i].content = EmptyStr
                           /\ messages'[i].parsed = Undefined
                           /\ messages'[i].frameworks = Undefined
                           /\ messages'[i].isLoading = Undefined
                      ELSE messages'[i] = messages[i]
                /\ UNCHANGED <<updates, updatesSummary, updatesLastChecked,
                               updatesError, reviewedUpdates>>
           ELSE /\ IsString(updatesError')
                /\ updatesError' # EmptyStr
                /\ given => updatesError' = r.error
                /\ ~given => updatesError'
                      \in {Str(Lit.FailedUpdates), Str(Lit.NetworkError)}
                /\ UNCHANGED <<messages, updates, updatesSummary,
                               updatesLastChecked, reviewedUpdates>>]_vars

\* The second chat call threw after the first was answered: the answer is
\* still there and the second placeholder is an error message.
FailedAfterAnswer ==
    /\ settled.call.agent = LEGAL_AGENT_ID
    /\ settled.result.outcome = "throw"
    /\ Len(messages) = 4
    /\ messages[2].parsed.t = "object"
    /\ messages[4] = ErrorMsg(settled.call.loadingMsgId, Str(Lit.NetworkError))

\* C19: after a successful chat call the answer of the record, which is
\* also the content of the message, is the first value that is not empty
\* among the decoded answer, result.answer when the raw result is an
\* object, response.message, result.text, the raw result when it is a
\* text, and the literal 'Unable to parse response', in this order.
AnswerPrecedence ==
    Succeeded(LEGAL_AGENT_ID) =>
        LET result == ResultOf(settled.result)
            candidates ==
                <<Get(parseLLMJson(result), Key.answer),
                  IF result.t \in {"object", "array", "null"}
                  THEN Get(result, Key.answer) ELSE EmptyStr,
                  MessageOf(settled.result),
                  Get(result, Key.text),
                  IF result.t = "string" THEN result ELSE EmptyStr,
                  Str(Lit.UnableToParse)>>
            first == CHOOSE k \in 1..6 :
                        /\ Truthy(candidates[k])
                        /\ \A j \in 1..(k - 1) : ~Truthy(candidates[j])
        IN /\ Get(ReplyTo(settled.call).parsed, Key.answer) = candidates[first]
           /\ ReplyTo(settled.call).content = candidates[first]

\* A result with an empty answer and a text came with a message: the
\* message is the answer.
MessageBeforeText ==
    /\ Succeeded(LEGAL_AGENT_ID)
    /\ Get(ResultOf(settled.result), Key.answer) = EmptyStr
    /\ Get(ResultOf(settled.result), Key.text) = Str(Txt.ok)
    /\ MessageOf(settled.result) = Str(Txt.m)
    /\ Get(ReplyTo(settled.call).parsed, Key.answer) = Str(Txt.m)

\* C20: when the promise of every call settles, chatLoading is always
\* followed by a state in which it is false and updatesLoading likewise;
\* the step that settles a call clears the flag of its handler whether the
\* call succeeded, failed or threw; and with the flag cleared a suggested
\* query and an update check are not turned away.
GatesReleased ==
    /\ chatLoading ~> ~chatLoading
    /\ updatesLoading ~> ~updatesLoading
    /\ [][settled' # settled =>
            IF settled'.call.agent = LEGAL_AGENT_ID
            THEN chatLoading /\ ~chatLoading'
            ELSE updatesLoading /\ ~updatesLoading']_vars
    /\ [](~chatLoading => ~SendRejected(Str(Lit.SuggestedQuery)))
    /\ [](~updatesLoading => ~CheckRejected)

\* The first chat call threw, and a second question was accepted.
AcceptedAfterThrow ==
    /\ settled.call.agent = LEGAL_AGENT_ID
    /\ settled.result.outcome = "throw"
    /\ agentCalls[LEGAL_AGENT_ID] = 2
    /\ chatLoading
    /\ lastCall = Attempt("send", TRUE, FALSE, TRUE)

-----------------------------------------------------------------------------
(* Properties of the page state under interleaved requests.                *)

\* C21: in every state, while a call of either agent is outstanding
\* activeAgentId is the id of an agent with an outstanding call, and while
\* none is outstanding activeAgentId is null.
ActiveAgentTracks ==
    IF inflight = {}
    THEN activeAgentId = NoAgent
    ELSE \E c \in inflight : c.agent = activeAgentId

\* C22: in every state a message is loading exactly when it is the
\* placeholder of an outstanding call of the legal agent, at most one
\* message is loading and none when chatLoading is false; a step that
\* issues a call of the legal agent appends one user message and after it
\* one loading placeholder; a step that settles such a call replaces the
\* one message with the placeholder's id, in place, and leaves the number,
\* the order and the content of the other messages as they were; no other
\* step changes the messages.
MessageList ==
    /\ [](\A i \in 1..Len(messages) :
              messages[i].isLoading = Bool(TRUE)
              <=> \E c \in Outstanding(LEGAL_AGENT_ID) :
                     c.loadingMsgId = messages[i].id)
    /\ [](Cardinality({i \in 1..Len(messages) :
                          messages[i].isLoading = Bool(TRUE)}) <= 1)
    /\ [](~chatLoading =>
              \A i \in 1..Len(messages) : messages[i].isLoading = Undefined)
    /\ [][IF agentCalls'[LEGAL_AGENT_ID] # agentCalls[LEGAL_AGENT_ID]
           THEN /\ Len(messages') = Len(messages) + 2
                /\ SubSeq(messages', 1, Len(messages)) = messages
                /\ messages'[Len(messages) + 1].role = "user"
                /\ messages'[Len(messages) + 1].isLoading = Undefined
                /\ messages'[Len(messages) + 2].role = "assistant"
                /\ messages'[Len(messages) + 2].isLoading = Bool(TRUE)
           ELSE IF settled' # settled /\ settled'.call.agent = LEGAL_AGENT_ID
           THEN /\ Len(messages') = Len(messages)
                /\ Cardinality({i \in 1..Len(messages) :
                       messages[i].id = settled'.call.loadingMsgId}) = 1
                /\ \A i \in 1..Len(messages) :
                      IF messages[i].id = settled'.call.loadingMsgId
                      THEN /\ messages[i].isLoading = Bool(TRUE)
                           /\ messages'[i].id = messages[i].id
                           /\ messages'[i].isLoading = Undefined
                      ELSE messages'[i] = messages[i]
           ELSE messages' = messages]_vars

\* A second question is outstanding after the first was answered: of the
\* four messages only the last is loading.
SecondPlaceholder ==
    /\ Len(messages) = 4
    /\ chatLoading
    /\ messages[2].isLoading = Undefined
    /\ messages[2].parsed.t = "object"
    /\ messages[3].role = "user"
    /\ messages[4] = LoadingMsg(messages[4].id)

\* C23: a step that starts an update check, and a step in which an update
\* check fails or throws, leave the stored updates, the summary, the
\* last-checked value and the reviewed set as they were: of the page state
\* they change only updatesError, updatesLoading and activeAgentId.
FailedCheckFrame ==
    [][(\/ agentCalls'[MEITY_AGENT_ID] # agentCalls[MEITY_AGENT_ID]
        \/ /\ settled' # settled
           /\ settled'.call.agent = MEITY_AGENT_ID
           /\ settled'.result.outcome # "success")
       => UNCHANGED <<updates, updatesSummary, updatesLastChecked,
                      reviewedUpdates, messages, inputValue, chatLoading,
                      frameworkFilter, sampleData>>]_vars

\* A check failed after an earlier one had stored two updates, both
\* reviewed since: they are still stored and reviewed.
FailedOverStored ==
    /\ settled.call.agent = MEITY_AGENT_ID
    /\ settled.result.outcome = "failure"
    /\ updatesError = Str(Txt.boom)
    /\ Len(updates.v) = 2
    /\ updatesSummary = Str(Txt.ok)
    /\ reviewedUpdates = {0, 1}

\* C24: in every state an index is in reviewedUpdates only if the card at
\* that position was clicked since the last successful update check; a
\* step in which an update check succeeds empties the set while it
\* replaces the updates, and every other step keeps the indices the set
\* holds.
ReviewedSinceCheck ==
    /\ [](reviewedUpdates \subseteq clicked)
    /\ [][IF /\ settled' # settled
              /\ settled'.call.agent = MEITY_AGENT_ID
              /\ settled'.result.outcome = "success"
           THEN /\ reviewedUpdates' = {}
                /\ updates' = ArrayField(parseLLMJson(ResultOf(settled'.result)),
                                         Key.updates)
           ELSE /\ reviewedUpdates \subseteq reviewedUpdates'
                /\ updates' = updates]_vars

\* After the second successful check the second card of the two new
\* updates was clicked, and it alone is reviewed.
ReviewedAfterReload ==
    /\ Succeeded(MEITY_AGENT_ID)
    /\ agentCalls[MEITY_AGENT_ID] = 2
    /\ Len(updates.v) = 2
    /\ reviewedUpdates = {1}
    /\ clicked = {1}

ErrorOfLastCheck ==
    /\ [][agentCalls'[MEITY_AGENT_ID] # agentCalls[MEITY_AGENT_ID]
             => updatesError' = EmptyStr]_vars
    /\ [](updatesLoading => updatesError = EmptyStr)
    /\ [](Succeeded(MEITY_AGENT_ID) => updatesError = EmptyStr)
    /\ [](updatesError # EmptyStr
            => /\ settled.call.agent = MEITY_AGENT_ID
               /\ settled.result.outcome \in {"failure", "throw"}
               /\ Outstanding(MEITY_AGENT_ID) = {})

\* A check was started after one that had failed: the error is gone while
\* the new check is outstanding.
ErrorCleared ==
    /\ updatesLoading
    /\ settled.call.agent = MEITY_AGENT_ID
    /\ settled.result.outcome = "failure"
    /\ updatesError = EmptyStr

====
